---- MODULE Spec2Model ----
(***************************************************************************)
(* Document Analyzer (src/streamlit_app.py): the chunker, the regex field  *)
(* extractor, the two parallel stores (docs_meta and the FAISS index), the *)
(* hybrid query resolver and the summarizer.                               *)
(*                                                                         *)
(* A Python str is modelled as the sequence of its runs of equal           *)
(* characters, each run [ch, end] giving the character and the position    *)
(* at which the run ends (adjacent runs have different characters), so     *)
(* that a page of several hundred thousand characters is a short value and *)
(* the program's constants keep their values (CHUNK_SIZE = 500,            *)
(* OVERLAP = 100).  Every string operation below is computed on the        *)
(* characters, as Python computes it.                                      *)
(***************************************************************************)
EXTENDS Integers, Sequences, FiniteSets, TLC

\* ---------------------------------------------------------------- CONFIG
CHUNK_SIZE == 500
OVERLAP == 100
EMB_DIM == 384
\* the literal 50 of line 40: how far a window's end may be moved forward
SNAP_LIMIT == 50
\* the literal 2000 of line 48: the chunk-count cap
MAX_CHUNKS == 2000
\* the literals 200 and 500 of lines 114-115 and the default k of line 92
ANSWER_PREFIX == 200
CONTEXT_PREFIX == 500
DEFAULT_K == 5
\* the default word_count of summarize_doc, line 120
DEFAULT_WORD_COUNT == 120

Min(a, b) == IF a <= b THEN a ELSE b

\* ------------------------------------------------------------ Python str
\* the characters str.isspace, str.strip, str.split and \s treat as blank
WHITESPACE == {" ", "\n", "\t"}
IsSpace(c) == c \in WHITESPACE

Run(c, e) == [ch |-> c, end |-> e]

\* the position at which run k of t begins
RunStart(t, k) == IF k = 1 THEN 0 ELSE t[k - 1].end

\* len(s)
StrLen(t) == IF t = <<>> THEN 0 ELSE t[Len(t)].end

\* the run holding position i, 0 <= i < len(s)
RunAt(t, i) == CHOOSE k \in 1..Len(t) : RunStart(t, k) <= i /\ i < t[k].end

\* s[i], 0 <= i < len(s)
CharAt(t, i) == t[RunAt(t, i)].ch

Least(S) == CHOOSE x \in S : \A y \in S : x <= y
Greatest(S) == CHOOSE x \in S : \A y \in S : x >= y

\* runs with increasing ends, joined where neighbours hold the same character
IsLast(x) == x.last
Unflag(kept) == [k \in 1..Len(kept) |-> Run(kept[k].ch, kept[k].end)]
Merge(r) ==
  Unflag(SelectSeq([k \in 1..Len(r) |->
                      [ch |-> r[k].ch, end |-> r[k].end,
                       last |-> (k = Len(r) \/ r[k + 1].ch # r[k].ch)]], IsLast))

\* a + b
Concat(a, b) ==
  Merge(a \o [k \in 1..Len(b) |-> Run(b[k].ch, b[k].end + StrLen(a))])

\* s[a:hi] for 0 <= a < hi <= len(s), from run lo on
SliceRuns(t, a, hi, lo) ==
  [k \in 1..(RunAt(t, hi - 1) - lo + 1) |->
     Run(t[lo + k - 1].ch, Min(t[lo + k - 1].end, hi) - a)]

\* s[a:b] for 0 <= a; an end beyond the string is clamped, as Python does
Slice(t, a, b) ==
  IF a >= Min(b, StrLen(t)) THEN <<>>
  ELSE SliceRuns(t, a, Min(b, StrLen(t)), RunAt(t, a))

\* s.strip(): a run is blank or not as a whole
NonBlank(t) == {k \in 1..Len(t) : ~IsSpace(t[k].ch)}
Strip(t) ==
  IF NonBlank(t) = {} THEN <<>>
  ELSE Slice(t, RunStart(t, Least(NonBlank(t))), t[Greatest(NonBlank(t))].end)

\* a str literal, written as the tuple of its characters
Str(s) == Merge([i \in 1..Len(s) |-> Run(s[i], i)])

\* sep.join(parts[lo..hi]), halving the range
RECURSIVE JoinRange(_, _, _, _)
JoinRange(sep, parts, lo, hi) ==
  IF lo > hi THEN <<>>
  ELSE IF lo = hi THEN parts[lo]
  ELSE Concat(JoinRange(sep, parts, lo, (lo + hi) \div 2),
              Concat(sep, JoinRange(sep, parts, (lo + hi) \div 2 + 1, hi)))

\* sep.join(parts)
Join(sep, parts) == JoinRange(sep, parts, 1, Len(parts))

UPPER == <<"A", "B", "C", "D", "E", "F", "G", "H", "I", "J", "K", "L", "M",
           "N", "O", "P", "Q", "R", "S", "T", "U", "V", "W", "X", "Y", "Z">>
LOWER == <<"a", "b", "c", "d", "e", "f", "g", "h", "i", "j", "k", "l", "m",
           "n", "o", "p", "q", "r", "s", "t", "u", "v", "w", "x", "y", "z">>
DIGITS == {"0", "1", "2", "3", "4", "5", "6", "7", "8", "9"}
UpperSet == {UPPER[i] : i \in 1..26}
LowerSet == {LOWER[i] : i \in 1..26}
LETTERS == UpperSet \cup LowerSet

ToLower(c) ==
  IF c \in UpperSet THEN LOWER[CHOOSE i \in 1..26 : UPPER[i] = c] ELSE c

\* s.lower()
Lower(t) == Merge([k \in 1..Len(t) |-> Run(ToLower(t[k].ch), t[k].end)])

\* s.replace(a, b) for single characters a, b
Replace(t, a, b) ==
  Merge([k \in 1..Len(t) |-> Run(IF t[k].ch = a THEN b ELSE t[k].ch, t[k].end)])

\* s.split(): the maximal stretches of non-blank characters
WordStarts(t) ==
  SelectSeq([k \in 1..Len(t) |-> k],
            LAMBDA k : ~IsSpace(t[k].ch) /\ (k = 1 \/ IsSpace(t[k - 1].ch)))
WordEnds(t) ==
  SelectSeq([k \in 1..Len(t) |-> k],
            LAMBDA k : ~IsSpace(t[k].ch) /\ (k = Len(t) \/ IsSpace(t[k + 1].ch)))
Split(t) ==
  [j \in 1..Len(WordStarts(t)) |->
     Slice(t, RunStart(t, WordStarts(t)[j]), t[WordEnds(t)[j]].end)]

\* ---------------------------------------------------------------- Chunker
\* lines 39-42: the end of the window, moved forward while it is before
\* extra_end and the character at it is not blank
SnapEnd(text, end, extra_end) ==
  Least({e \in end..extra_end : e = extra_end \/ IsSpace(CharAt(text, e))})

WindowEnd(text, start) ==
  LET end == start + CHUNK_SIZE
  IN IF end < StrLen(text)
     THEN SnapEnd(text, end, Min(StrLen(text), end + SNAP_LIMIT))
     ELSE end

\* lines 37-45: the chunk appended for the window starting at start
WindowChunk(text, start) == Strip(Slice(text, start, WindowEnd(text, start)))

\* faulty variants of line 46: the next window begins where the last one
\* ended (no overlap); OVERLAP taken as large as CHUNK_SIZE
NoOverlapStart(text, start) == WindowEnd(text, start)
NoAdvanceStart(text, start) == WindowEnd(text, start) - CHUNK_SIZE

\* line 46
NextStart(text, start) == WindowEnd(text, start) - OVERLAP

\* lines 34-46: the chunks of one (stripped, non-empty) page text
RECURSIVE ChunkPage(_, _)
ChunkPage(text, start) ==
  IF start < StrLen(text)
  THEN <<WindowChunk(text, start)>> \o ChunkPage(text, NextStart(text, start))
  ELSE <<>>

\* line 29: page.extract_text() or "": a page result is <<>> (None) or <<s>>
OrEmpty(r) == IF r = <<>> THEN <<>> ELSE r[1]

\* a faulty variant of line 48: the cap tested one chunk too late
LateCap(n) == n > MAX_CHUNKS + 1

\* line 48: the test that ends the loop over the pages, n = len(all_chunks)
CapReached(n) == n > MAX_CHUNKS

\* lines 28-49: the loop over the pages, all_chunks being the chunks so far
RECURSIVE ChunkPages(_, _)
ChunkPages(pages, all_chunks) ==
  IF pages = <<>> THEN all_chunks
  ELSE LET text == Strip(OrEmpty(Head(pages)))
       IN IF text = <<>> THEN ChunkPages(Tail(pages), all_chunks)
          ELSE LET acc == all_chunks \o ChunkPage(text, 0)
               IN IF CapReached(Len(acc)) THEN acc
                  ELSE ChunkPages(Tail(pages), acc)

\* extract_and_chunk_pdf(file), for a file pdfplumber can open
extract_and_chunk_pdf(pages) == ChunkPages(pages, <<>>)

\* ------------------------------------------------------------- re.search
\* A pattern is a tree: one character of a set, a literal (one set per
\* character), a concatenation, an ordered alternation, or a greedy repetition {min,max} (max = -1: unbounded) of a
\* character set or of an optional sub-pattern.  Ends(re, t, i) is the
\* sequence of positions at which a match of re starting at position i
\* (0-based) can end, in the order Python's backtracking matcher tries them;
\* its first element is the end re.search reports for that start.
Cs(S) == [op |-> "set", cs |-> S]
Cat(parts) == [op |-> "cat", parts |-> parts]
Alt(alts) == [op |-> "alt", alts |-> alts]
Rep(r, min, max) == [op |-> "rep", r |-> r, min |-> min, max |-> max]
\* a literal, and a literal under re.IGNORECASE
Lit(s) == [op |-> "lit", cs |-> [i \in 1..Len(s) |-> {s[i]}]]
BothCases(S) ==
  S \cup {LOWER[i] : i \in {j \in 1..26 : UPPER[j] \in S}}
    \cup {UPPER[i] : i \in {j \in 1..26 : LOWER[j] \in S}}
LitI(s) == [op |-> "lit", cs |-> [i \in 1..Len(s) |-> BothCases({s[i]})]]

\* whether t[i] exists and lies in cs
HasChar(t, i, cs) == 0 <= i /\ i < StrLen(t) /\ CharAt(t, i) \in cs

\* the number of consecutive characters of cs in t from position i on
RunLen(t, i, cs) ==
  IF ~HasChar(t, i, cs) THEN 0
  ELSE Least({t[k].end : k \in {j \in RunAt(t, i)..Len(t) :
                                  j = Len(t) \/ t[j + 1].ch \notin cs}}) - i

\* the ends of a greedy repetition {min,max} over a run of n matching
\* characters from position i: the longest first
CountDown(i, m, min) ==
  IF m < min THEN <<>> ELSE [k \in 1..(m - min + 1) |-> i + m - (k - 1)]
RepEnds(i, n, min, max) == CountDown(i, IF max < 0 THEN n ELSE Min(n, max), min)

RECURSIVE Ends(_, _, _)
RECURSIVE EndsFrom(_, _, _, _, _)
RECURSIVE EndsAlt(_, _, _)
RECURSIVE EndsOver(_, _, _)
Ends(re, t, i) ==
  CASE re.op = "set" -> IF HasChar(t, i, re.cs) THEN <<i + 1>> ELSE <<>>
    [] re.op = "lit" ->
         IF \A j \in 1..Len(re.cs) : HasChar(t, i + j - 1, re.cs[j])
         THEN <<i + Len(re.cs)>> ELSE <<>>
    [] re.op = "cat" ->
         IF re.parts = <<>> THEN <<i>>
         ELSE EndsOver(Cat(Tail(re.parts)), t, Ends(Head(re.parts), t, i))
    [] re.op = "alt" -> EndsAlt(re.alts, t, i)
    [] re.op = "rep" ->
         IF re.r.op = "set"
         THEN RepEnds(i, RunLen(t, i, re.r.cs), re.min, re.max)
         ELSE \* an optional sub-pattern, r? : first with it, then without
              Ends(re.r, t, i) \o <<i>>
\* the ends of re from starts[lo..hi], one start after the other (the range
\* is halved)
EndsFrom(re, t, starts, lo, hi) ==
  IF lo > hi THEN <<>>
  ELSE IF lo = hi THEN Ends(re, t, starts[lo])
  ELSE EndsFrom(re, t, starts, lo, (lo + hi) \div 2)
         \o EndsFrom(re, t, starts, (lo + hi) \div 2 + 1, hi)
EndsOver(re, t, starts) == EndsFrom(re, t, starts, 1, Len(starts))
EndsAlt(alts, t, i) ==
  IF alts = <<>> THEN <<>>
  ELSE Ends(Head(alts), t, i) \o EndsAlt(Tail(alts), t, i)

\* the characters a match of re can begin with (no pattern below matches the
\* empty string): re.search need not try any other start
RECURSIVE Nullable(_)
RECURSIVE NullableAll(_)
RECURSIVE NullableAny(_)
Nullable(re) ==
  CASE re.op = "set" -> FALSE
    [] re.op = "lit" -> re.cs = <<>>
    [] re.op = "cat" -> NullableAll(re.parts)
    [] re.op = "alt" -> NullableAny(re.alts)
    [] re.op = "rep" -> re.min = 0 \/ Nullable(re.r)
NullableAll(rs) == rs = <<>> \/ (Nullable(Head(rs)) /\ NullableAll(Tail(rs)))
NullableAny(rs) == rs # <<>> /\ (Nullable(Head(rs)) \/ NullableAny(Tail(rs)))

RECURSIVE First(_)
RECURSIVE FirstCat(_)
RECURSIVE FirstAlt(_)
First(re) ==
  CASE re.op = "set" -> re.cs
    [] re.op = "lit" -> re.cs[1]
    [] re.op = "cat" -> FirstCat(re.parts)
    [] re.op = "alt" -> FirstAlt(re.alts)
    [] re.op = "rep" -> First(re.r)
FirstCat(rs) ==
  IF rs = <<>> THEN {}
  ELSE First(Head(rs)) \cup (IF Nullable(Head(rs)) THEN FirstCat(Tail(rs)) ELSE {})
FirstAlt(rs) == IF rs = <<>> THEN {} ELSE First(Head(rs)) \cup FirstAlt(Tail(rs))

\* the positions of t holding a character of cs
Positions(t, cs) ==
  UNION {RunStart(t, k)..(t[k].end - 1) : k \in {j \in 1..Len(t) : t[j].ch \in cs}}

\* the span <<a, b>> of the group when the pattern before it ends at a and
\* the group can end at ends (in backtracking order); <<>>: the group fails
GroupSpan(a, ends) == IF ends = <<>> THEN <<>> ELSE <<a, Head(ends)>>

\* the span of the group for the first end of the pattern before it (starts,
\* in backtracking order) at which the group matches
Matching(grp, t, starts) == {k \in 1..Len(starts) : Ends(grp, t, starts[k]) # <<>>}
FirstOf(grp, t, starts, ks) ==
  IF ks = {} THEN <<>>
  ELSE GroupSpan(starts[Least(ks)], Ends(grp, t, starts[Least(ks)]))
FirstGroup(grp, t, starts) == FirstOf(grp, t, starts, Matching(grp, t, starts))

\* of the attempts <<i, span>>, one per start i, the span of the leftmost
\* start that matched
Leftmost(attempts) ==
  IF \A x \in attempts : x[2] = <<>> THEN <<>>
  ELSE (CHOOSE x \in attempts :
          /\ x[2] # <<>>
          /\ \A y \in attempts : y[2] # <<>> => x[1] <= y[1])[2]

\* re.search(pre + "(" + grp + ")", t): <<>> (None) or <<a, b>>, the span of
\* the group in the leftmost match, the first one in backtracking order.
\* With an empty pre the group is the whole match, group(0).
SearchGroup(pre, grp, t) ==
  Leftmost({<<i, FirstGroup(grp, t, Ends(pre, t, i))>> :
              i \in Positions(t, First(Cat(<<pre, grp>>)))})

\* re.search(re, t): the span of group(0)
Search(re, t) == SearchGroup(Cat(<<>>), re, t)

\* needle in haystack
Contains(t, needle) == Search(Lit(needle), t) # <<>>

\* ---------------------------------------------------------- FieldExtractor
\* \s and \d of the patterns
WS == Cs(WHITESPACE)
DIGIT == Cs(DIGITS)
AlNum == LETTERS \cup DIGITS

\* line 60
NamePre ==
  Cat(<<Alt(<<LitI(<<"n","a","m","e"," ","o","f"," ","s","t","u","d","e","n","t">>),
              LitI(<<"n","a","m","e">>)>>),
        Rep(WS, 0, -1), Rep(Cs({":", "-"}), 0, 1), Rep(WS, 0, -1)>>)
NameGroup ==
  Cat(<<Cs(LETTERS), Rep(Cs(LETTERS \cup {" ", ",", ".", "'", "-"}), 2, -1)>>)

\* line 65
SemPre ==
  Cat(<<Alt(<<LitI(<<"s","e","m","e","s","t","e","r">>), LitI(<<"s","e","m">>)>>),
        Rep(WS, 0, -1), Rep(Cs({":", "-"}), 0, 1), Rep(WS, 0, -1)>>)
Ordinal ==
  Alt(<<LitI(<<"s","t">>), LitI(<<"n","d">>), LitI(<<"r","d">>), LitI(<<"t","h">>)>>)
SemGroup ==
  Alt(<<Rep(DIGIT, 1, 2),
        Rep(Cs(BothCases({"i", "v", "x", "l", "c", "d", "m"})), 1, -1),
        Cat(<<Rep(DIGIT, 1, 2), Rep(Ordinal, 0, 1)>>)>>)

\* line 70
GpaLabel ==
  Alt(<<LitI(<<"C","G","P","A">>), LitI(<<"G","P","A">>),
        LitI(<<"C","P","I">>), LitI(<<"S","G","P","A">>)>>)
GpaPre ==
  Cat(<<GpaLabel, Rep(WS, 0, -1), Rep(Cs({":", "=", "-"}), 0, 1), Rep(WS, 0, -1)>>)
GpaGroup ==
  Cat(<<Rep(DIGIT, 1, 2), Rep(Cat(<<Cs({"."}), Rep(DIGIT, 1, 4)>>), 0, 1)>>)

\* line 75 (case-sensitive; the classes name both cases)
EmailRe ==
  Cat(<<Rep(Cs(AlNum \cup {".", "_", "%", "+", "-"}), 1, -1), Cs({"@"}),
        Rep(Cs(AlNum \cup {".", "-"}), 1, -1), Cs({"."}), Rep(Cs(LETTERS), 2, -1)>>)

\* line 80
PhoneRe ==
  Cat(<<Rep(Cat(<<Rep(Cs({"+"}), 0, 1), Rep(DIGIT, 1, 3),
                  Rep(Cs(WHITESPACE \cup {"-"}), 0, 1)>>), 0, 1),
        DIGIT, Rep(Cs(DIGITS \cup WHITESPACE \cup {"-"}), 7, -1), DIGIT>>)

\* line 85
GithubRe ==
  Cat(<<LitI(<<"h","t","t","p">>), Rep(Cs({"s", "S"}), 0, 1),
        LitI(<<":","/","/","g","i","t","h","u","b",".","c","o","m","/">>),
        Rep(Cs(AlNum \cup {"_", ".", "-"}), 1, -1)>>)

\* the six fields, in the order of the six if statements
FIELDS == <<"name", "semester", "gpa", "email", "phone", "github">>

\* the words whose presence in q = question.lower() selects a field
KEYWORDS ==
  [name |-> {<<"n","a","m","e">>},
   semester |-> {<<"s","e","m","e","s","t","e","r">>, <<"s","e","m">>},
   gpa |-> {<<"g","p","a">>, <<"c","g","p","a">>, <<"c","p","i">>, <<"s","g","p","a">>},
   email |-> {<<"e","m","a","i","l">>},
   phone |-> {<<"p","h","o","n","e">>, <<"c","o","n","t","a","c","t">>,
              <<"m","o","b","i","l","e">>},
   github |-> {<<"g","i","t","h","u","b">>}]

\* the condition of the if statement of field f
Keyword(f, q) == \E w \in KEYWORDS[f] : Contains(q, w)

\* the pattern of field f: what precedes the returned group, the group (the
\* whole pattern where group(0) is returned), and whether .strip() is applied
NoPrefix == Cat(<<>>)
PATTERNS ==
  [name |-> [pre |-> NamePre, grp |-> NameGroup, strip |-> TRUE],
   semester |-> [pre |-> SemPre, grp |-> SemGroup, strip |-> TRUE],
   gpa |-> [pre |-> GpaPre, grp |-> GpaGroup, strip |-> FALSE],
   email |-> [pre |-> NoPrefix, grp |-> EmailRe, strip |-> FALSE],
   phone |-> [pre |-> NoPrefix, grp |-> PhoneRe, strip |-> TRUE],
   github |-> [pre |-> NoPrefix, grp |-> GithubRe, strip |-> FALSE]]

\* what the if statement of a field returns for the match m of its pattern:
\* <<>> when m is None (the function goes on), else <<s>>, the returned str
Returned(m, t, strip) ==
  IF m = <<>> THEN <<>>
  ELSE IF strip THEN <<Strip(Slice(t, m[1], m[2]))>> ELSE <<Slice(t, m[1], m[2])>>

FieldValue(f, t) ==
  Returned(SearchGroup(PATTERNS[f].pre, PATTERNS[f].grp, t), t, PATTERNS[f].strip)

\* a faulty variant of OrNext: the function returns what the first field
\* whose keyword occurs gives, None included (elif in place of if)
StopAtFirstKeyword(v, c, q, t) == v

\* lines 59-89, from the if statement of field number c on.  OrNext: the
\* inner "if m: return ..." of field c, v being what it would return; when m
\* is None control reaches the if statement of the next field
RECURSIVE ExtractFrom(_, _, _)
RECURSIVE OrNext(_, _, _, _)
ExtractFrom(c, q, t) ==
  IF c > Len(FIELDS) THEN <<>>
  ELSE IF Keyword(FIELDS[c], q) THEN OrNext(FieldValue(FIELDS[c], t), c, q, t)
  ELSE ExtractFrom(c + 1, q, t)
OrNext(v, c, q, t) == IF v # <<>> THEN v ELSE ExtractFrom(c + 1, q, t)

\* _extract_field_from_text(question, text): <<>> is None
ExtractField(question, text) ==
  ExtractFrom(1, Lower(question), Replace(text, "\n", " "))

\* ------------------------------------------------------ EmbeddingProvider
\* model.encode(..., normalize_embeddings=True) followed by normalize_L2: a
\* unit vector of dimension EMB_DIM that depends on the text alone.  The
\* model is external; it is represented by the unit vectors along the axes,
\* a vector being the number (0 .. EMB_DIM - 1) of its axis.
CharCode(c) ==
  IF c \in UpperSet THEN CHOOSE i \in 1..26 : UPPER[i] = c
  ELSE IF c \in LowerSet THEN 26 + (CHOOSE i \in 1..26 : LOWER[i] = c)
  ELSE IF c \in DIGITS THEN 60
  ELSE IF c \in WHITESPACE THEN 0
  ELSE 70

Hash(t) ==
  IF t = <<>> THEN 7
  ELSE (31 * StrLen(t) + 7 * Len(t) + 3 * CharCode(t[1].ch)
          + CharCode(t[Len(t)].ch)) % EMB_DIM

encode(text) == Hash(text)

\* the inner product of two unit vectors along axes
InnerProduct(u, v) == IF u = v THEN 1 ELSE 0

\* ------------------------------------------------------------ VectorIndex
\* the score faiss reports in a slot it could not fill (its label is -1)
NO_HIT_SCORE == -1

\* row j comes before row i: a greater inner product with q, or the same
\* one and a smaller row number
Before(idx, q, j, i) ==
  \/ InnerProduct(idx[j + 1], q) > InnerProduct(idx[i + 1], q)
  \/ InnerProduct(idx[j + 1], q) = InnerProduct(idx[i + 1], q) /\ j < i

\* the rows of idx by descending inner product with q (ties: by row number)
Ranked(idx, q, rows) ==
  [s \in 1..Cardinality(rows) |->
     CHOOSE i \in rows : Cardinality({j \in rows : Before(idx, q, j, i)}) = s - 1]

\* D[0], I[0] of index.search(q_emb, k): exactly k slots, the best rows first;
\* when the index holds fewer than k rows the other slots carry the label -1
IndexSearch(idx, q, k) ==
  LET ranked == Ranked(idx, q, 0..(Len(idx) - 1))
  IN [s \in 1..k |->
        IF s <= Len(ranked)
        THEN [score |-> InnerProduct(idx[ranked[s] + 1], q), idx |-> ranked[s]]
        ELSE [score |-> NO_HIT_SCORE, idx |-> -1]]

\* ------------------------------------------------------------ QueryEngine
\* the str "Extracted directly"
EXTRACTED_DIRECTLY ==
  Str(<<"E","x","t","r","a","c","t","e","d"," ","d","i","r","e","c","t","l","y">>)

\* " ".join([d["text"] for d in docs_meta])
AllText(dm) == Join(Str(<<" ">>), [i \in 1..Len(dm) |-> dm[i].text])

\* seq[i] of a Python list, i < len(seq): a negative i counts from the end
PyItem(seq, i) == IF i < 0 THEN seq[Len(seq) + i + 1] ELSE seq[i + 1]

\* the truth value of an extraction: None and "" are false
Truthy(r) == r # <<>> /\ r[1] # <<>>

\* lines 112-116: the result for a slot, answer being the extraction
SlotResult(score, text_chunk, answer) ==
  [score |-> score,
   answer |-> IF Truthy(answer) THEN answer[1] ELSE Slice(text_chunk, 0, ANSWER_PREFIX),
   context |-> Slice(text_chunk, 0, CONTEXT_PREFIX)]

\* lines 106-117: the results built from the slots of the search
\* hits: the slots that pass the test of line 107
Admitted(dm, slots) == SelectSeq(slots, LAMBDA s : s.idx < Len(dm))
ResultsOf(question, dm, hits) ==
  [s \in 1..Len(hits) |->
     SlotResult(hits[s].score, PyItem(dm, hits[s].idx).text,
                ExtractField(question, PyItem(dm, hits[s].idx).text))]
SemanticResults(question, dm, slots) == ResultsOf(question, dm, Admitted(dm, slots))

\* what a call of query leaves behind.  raised: an exception left the
\* function; search: the slots index.search returned, <<>> when not called.
\* NoQuery: query was not called at all
Returns(results, search) ==
  [called |-> TRUE, raised |-> FALSE, results |-> results, search |-> search]
Raises == [called |-> TRUE, raised |-> TRUE, results |-> <<>>, search |-> <<>>]
NoQuery == [called |-> FALSE, raised |-> FALSE, results |-> <<>>, search |-> <<>>]

\* lines 102-117
Semantic(question, dm, slots) == Returns(SemanticResults(question, dm, slots), slots)

\* a faulty variant of Resolve: the extraction from the whole corpus is
\* ignored and the index searched in every call
AlwaysSearch(direct, question, k, dm, idx, model_ok) ==
  IF ~model_ok THEN Raises
  ELSE Semantic(question, dm, IndexSearch(idx, encode(question), k))

\* lines 99-117, direct being the extraction from the whole corpus;
\* model_ok: model.encode returns (it raises otherwise)
Resolve(direct, question, k, dm, idx, model_ok) ==
  IF Truthy(direct)
  THEN Returns(<<[answer |-> direct[1], context |-> EXTRACTED_DIRECTLY]>>, <<>>)
  ELSE IF ~model_ok THEN Raises
  ELSE Semantic(question, dm, IndexSearch(idx, encode(question), k))

\* query(question, k) on the stores dm, idx
query(question, k, dm, idx, model_ok) ==
  IF dm = <<>> THEN Returns(<<>>, <<>>)
  ELSE Resolve(ExtractField(question, AllText(dm)), question, k, dm, idx, model_ok)

\* ------------------------------------------------------------- Summarizer
\* line 125: the GPA pattern of the summary, [\d]+ for the integer part
SummaryGpaPre ==
  Cat(<<Alt(<<LitI(<<"C","G","P","A">>), LitI(<<"G","P","A">>),
              LitI(<<"S","G","P","A">>), LitI(<<"C","P","I">>)>>),
        Rep(WS, 0, -1), Rep(Cs({":", "=", "-"}), 0, 1), Rep(WS, 0, -1)>>)
SummaryGpaGroup ==
  Cat(<<Rep(DIGIT, 1, -1), Rep(Cat(<<Cs({"."}), Rep(DIGIT, 1, 4)>>), 0, 1)>>)

\* line 126
CgpaLine(combined, m) ==
  IF m = <<>> THEN <<>>
  ELSE Concat(Str(<<"C","G","P","A",":"," ">>),
              Concat(Slice(combined, m[1], m[2]), Str(<<"\n">>)))

\* line 128
SummaryText(words, word_count) ==
  Concat(Join(Str(<<" ">>), SubSeq(words, 1, Min(word_count, Len(words)))),
         IF Len(words) > word_count THEN Str(<<" ",".",".",".">>) ELSE <<>>)

\* lines 123-129
Summary(combined, word_count) ==
  Concat(CgpaLine(combined, SearchGroup(SummaryGpaPre, SummaryGpaGroup, combined)),
         SummaryText(Split(combined), word_count))

\* summarize_doc(word_count), word_count >= 0
summarize_doc(word_count, dm) == Summary(AllText(dm), word_count)

\* ---------------------------------------------------------- upload handler
\* line 144: the rows index.add receives for the chunks
NewRows(chunks) == [i \in 1..Len(chunks) |-> encode(chunks[i])]

\* a faulty variant of NewRecords: empty chunks get no record
NonEmpty(chunks) == SelectSeq(chunks, LAMBDA c : c # <<>>)
NonEmptyRecords(chunks) ==
  [i \in 1..Len(NonEmpty(chunks)) |-> [chunk_id |-> i - 1, text |-> NonEmpty(chunks)[i]]]

\* lines 146-147: the records appended to docs_meta for the chunks
NewRecords(chunks) ==
  [i \in 1..Len(chunks) |-> [chunk_id |-> i - 1, text |-> chunks[i]]]

\* what a run of the handler leaves behind: the stores, whether an exception
\* ended it, the summary it showed, whether it called query and what that
\* call left behind
Outcome(dm, idx, r, shown, q) ==
  [docs_meta |-> dm, index |-> idx, raised |-> r, summary |-> shown,
   queried |-> q.called, results |-> q.results, search |-> q.search]

\* lines 149-161 on the stores as the upload left them
Show(dm, idx, shown, q) == Outcome(dm, idx, q.raised, shown, q)

\* lines 141-161, chunks being what extract_and_chunk_pdf returned.
\* user_q: the text of the question box ("" when empty); fail: the
\* model.encode call that raises ("chunks", "question") or "no"
StoreChunks(chunks, user_q, fail, dm, idx) ==
  IF chunks = <<>> THEN Outcome(dm, idx, FALSE, <<>>, NoQuery)
  ELSE IF fail = "chunks" THEN Outcome(dm, idx, TRUE, <<>>, NoQuery)
  ELSE Show(dm \o NewRecords(chunks), idx \o NewRows(chunks),
            summarize_doc(DEFAULT_WORD_COUNT, dm \o NewRecords(chunks)),
            IF user_q = <<>> THEN NoQuery
            ELSE query(user_q, DEFAULT_K, dm \o NewRecords(chunks),
                       idx \o NewRows(chunks), fail # "question"))

\* lines 137-161, one run of the handler for an uploaded file on the stores
\* dm, idx.  file.readable: pdfplumber opens the file and extracts its pages
\* (it raises otherwise)
upload_handler(file, user_q, fail, dm, idx) ==
  IF ~file.readable THEN Outcome(dm, idx, TRUE, <<>>, NoQuery)
  ELSE StoreChunks(extract_and_chunk_pdf(file.pages), user_q, fail, dm, idx)

\* ------------------------------------------------------------------ bounds
\* runs of the upload handler in one behaviour
MaxUploads == 2
\* the values of k a caller of query passes: 1 .. MaxK
MaxK == 2
\* a small word_count a caller of summarize_doc passes
MaxWords == 2
\* runs of equal characters a page text given to the chunker is made of
MaxRuns == 3

\* ------------------------------------------------------------------ inputs
Filler(c, n) == <<Run(c, n)>>

\* a page with a name and a CGPA, one chunk
PAGE_PROFILE ==
  Str(<<"N","a","m","e",":"," ","A","s","h","a"," ","V","e","r","m","a","\n",
        "C","G","P","A",":"," ","8",".","7","5">>)
\* a page with a long run of blanks between its words: three chunks, the
\* second one of blanks only
PAGE_BLANKS ==
  Concat(Filler("#", 400),
         Concat(Filler(" ", 600),
                Str(<<"m","a","i","l"," ","a","s","h","a","@","e","x",".","c","o","m">>)))

\* the files a user uploads: pages are <<>> (extract_text() returned None)
\* or <<text>>
Files ==
  { [readable |-> TRUE, pages |-> << <<PAGE_PROFILE>> >>],
    [readable |-> TRUE, pages |-> << <<>>, <<PAGE_BLANKS>> >>],
    [readable |-> TRUE, pages |-> << <<>>, <<Filler("\n", 2)>> >>],
    [readable |-> FALSE, pages |-> <<>>] }

Q_NAME == Str(<<"N","a","m","e","?">>)
Q_NAME_EMAIL == Str(<<"n","a","m","e"," ","a","n","d"," ","e","m","a","i","l">>)
Q_PHONE == Str(<<"p","h","o","n","e">>)
Q_HELLO == Str(<<"h","e","l","l","o">>)
Questions == {Q_NAME, Q_NAME_EMAIL, Q_PHONE, Q_HELLO}
\* what the question box holds when a file is uploaded (<<>>: nothing)
BoxQuestions == {<<>>, Q_HELLO}

WordCounts == {0, MaxWords, DEFAULT_WORD_COUNT}

\* the questions and texts _extract_field_from_text is called with
Q_SEM_GPA == Str(<<"S","e","m"," ","o","r"," ","C","G","P","A","?">>)
Q_CONTACT == Str(<<"c","o","n","t","a","c","t"," ","g","i","t","h","u","b">>)
Q_EMAIL == Str(<<"E","m","a","i","l">>)
Q_ALL ==
  Str(<<"n","a","m","e"," ","s","e","m"," ","g","p","a"," ","e","m","a","i","l"," ",
        "p","h","o","n","e"," ","g","i","t","h","u","b">>)
ExQuestions ==
  {<<>>, Q_NAME, Q_NAME_EMAIL, Q_PHONE, Q_HELLO, Q_SEM_GPA, Q_CONTACT, Q_EMAIL, Q_ALL}
T_EMAIL == Str(<<"m","a","i","l"," ","a","s","h","a","@","e","x",".","c","o","m">>)
T_SEM == Str(<<"S","e","m"," ","4"," ","o","f"," ","8">>)
T_PHONE ==
  Str(<<"c","a","l","l"," ","+","9","1"," ","9","8","7","6","5","-","4","3","2","1","0">>)
T_GITHUB ==
  Str(<<"h","t","t","p","s",":","/","/","g","i","t","h","u","b",".","c","o","m","/",
        "a","s","h","a">>)
T_NAME_ONLY == Str(<<"n","a","m","e"," ","-","\n","R","a","j">>)
ExTexts ==
  {<<>>, PAGE_PROFILE, T_EMAIL, T_SEM, T_PHONE, T_GITHUB, T_NAME_ONLY,
   Concat(T_GITHUB, Concat(Str(<<"\n">>), T_PHONE)),
   Concat(PAGE_PROFILE, Concat(Str(<<" ">>), T_EMAIL))}

\* the page texts given to the chunker run step by step: up to MaxRuns runs,
\* in turn of "x" and of blanks, of these lengths
RunLens == {1, 30, 520, 910}
RECURSIVE SumTo(_, _)
SumTo(lens, k) == IF k = 0 THEN 0 ELSE lens[k] + SumTo(lens, k - 1)
RunText(first, lens) ==
  [k \in 1..Len(lens) |->
     Run(IF (k % 2 = 1) = first THEN "x" ELSE " ", SumTo(lens, k))]
RunTexts ==
  {RunText(first, lens) :
     first \in BOOLEAN, lens \in UNION {[1..r -> RunLens] : r \in 1..MaxRuns}}
\* the documents chunked from their first page on: one page, or a page
\* without text before it
ChunkDocs ==
  {<< <<t>> >> : t \in RunTexts} \cup { << <<>>, <<Filler("x", 30)>> >> }
\* long documents: PagesBefore pages of one chunk each (PAGE_ONE), followed
\* by seven more such pages, or by three pages of three chunks each
PAGE_ONE == Filler("x", 30)
PAGE_THREE == Filler("x", 910)
PagesBefore == MAX_CHUNKS - 5
LastPages ==
  { [i \in 1..7 |-> <<PAGE_ONE>>], [i \in 1..3 |-> <<PAGE_THREE>>] }

VARIABLES
  docs_meta,    \* line 21: the list of records {chunk_id, text}
  index,        \* line 20: the rows of the FAISS index, in insertion order
  uploads,      \* runs of the upload handler so far
  last_op,      \* the operation that ran last
  asked,        \* the question and k of the call of query in it (<<>>, 0:
  asked_k,      \* query was not called)
  raised,       \* whether it ended in an exception
  results,      \* the list query returned in it (<<>>: none)
  last_search,  \* the slots index.search returned in it (<<>>: not called)
  summary,      \* the str summarize_doc returned in it
  pc,           \* extract_and_chunk_pdf, run step by step: where it stands
  pages,        \* the pages not yet visited
  text,         \* line 30: the text of the page being chunked
  start,        \* line 34
  all_chunks,   \* line 26
  win_start,    \* start and end (line 43) of the window chunked last
  win_end,
  page_chunks,  \* chunks appended for the page being chunked
  page_ends,    \* len(all_chunks) at each evaluation of line 48
  ex_question,  \* _extract_field_from_text, called once: its arguments
  ex_text,
  ex_result,    \* what it returned (<<>>: None)
  ex_done

storeVars ==
  <<docs_meta, index, uploads, last_op, asked, asked_k, raised, results,
    last_search, summary>>
chunkVars == <<pc, pages, text, start, all_chunks, win_start, win_end, page_chunks, page_ends>>
exVars == <<ex_question, ex_text, ex_result, ex_done>>
vars == <<storeVars, chunkVars, exVars>>

StoreInit ==
  /\ docs_meta = <<>>
  /\ index = <<>>
  /\ uploads = 0
  /\ last_op = "none"
  /\ asked = <<>>
  /\ asked_k = 0
  /\ raised = FALSE
  /\ results = <<>>
  /\ last_search = <<>>
  /\ summary = <<>>

ChunkIdle ==
  /\ pc = "idle"
  /\ pages = <<>>
  /\ text = <<>>
  /\ start = 0
  /\ all_chunks = <<>>
  /\ win_start = 0
  /\ win_end = 0
  /\ page_chunks = 0
  /\ page_ends = <<>>

ExIdle ==
  /\ ex_question = <<>>
  /\ ex_text = <<>>
  /\ ex_result = <<>>
  /\ ex_done = FALSE

\* ------------------------------------------- the stores and their operations
Init == StoreInit /\ ChunkIdle /\ ExIdle

\* lines 137-161
Upload(file, user_q, fail) ==
  /\ uploads < MaxUploads
  /\ uploads' = uploads + 1
  /\ last_op' = "upload"
  /\ \E out \in {upload_handler(file, user_q, fail, docs_meta, index)} :
        /\ docs_meta' = out.docs_meta
        /\ index' = out.index
        /\ raised' = out.raised
        /\ results' = out.results
        /\ last_search' = out.search
        /\ summary' = out.summary
        /\ asked' = IF out.queried THEN user_q ELSE <<>>
        /\ asked_k' = IF out.queried THEN DEFAULT_K ELSE 0
  /\ UNCHANGED <<chunkVars, exVars>>

\* lines 92-117, a call of query(question, k)
Query(question, k, model_ok) ==
  /\ last_op' = "query"
  /\ asked' = question
  /\ asked_k' = k
  /\ \E out \in {query(question, k, docs_meta, index, model_ok)} :
        /\ raised' = out.raised
        /\ results' = out.results
        /\ last_search' = out.search
  /\ summary' = <<>>
  /\ UNCHANGED <<docs_meta, index, uploads, chunkVars, exVars>>

\* lines 120-129, a call of summarize_doc(word_count)
Summarize(word_count) ==
  /\ last_op' = "summarize"
  /\ asked' = <<>>
  /\ asked_k' = 0
  /\ summary' = summarize_doc(word_count, docs_meta)
  /\ raised' = FALSE
  /\ results' = <<>>
  /\ last_search' = <<>>
  /\ UNCHANGED <<docs_meta, index, uploads, chunkVars, exVars>>

Next ==
  \/ \E file \in Files, user_q \in BoxQuestions,
        fail \in {"no", "chunks", "question"} : Upload(file, user_q, fail)
  \/ \E question \in Questions, k \in 1..MaxK, model_ok \in BOOLEAN :
        Query(question, k, model_ok)
  \/ \E word_count \in WordCounts : Summarize(word_count)

Spec == Init /\ [][Next]_vars

\* ------------------------------------ extract_and_chunk_pdf, step by step
\* the call begins (line 26)
ChunkBegin ==
  /\ pc = "page"
  /\ pages \in ChunkDocs
  /\ text = <<>>
  /\ start = 0
  /\ all_chunks = <<>>
  /\ win_start = 0
  /\ win_end = 0
  /\ page_chunks = 0
  /\ page_ends = <<>>

\* a long document, from the state the call is in after its first
\* PagesBefore pages: each gave the one chunk PAGE_ONE, its window being
\* 0 .. CHUNK_SIZE, and the test of line 48 let the loop go on
ChunkLongDocument ==
  /\ pc = "page"
  /\ pages \in LastPages
  /\ text = PAGE_ONE
  /\ start = CHUNK_SIZE - OVERLAP
  /\ all_chunks = [i \in 1..PagesBefore |-> PAGE_ONE]
  /\ win_start = 0
  /\ win_end = CHUNK_SIZE
  /\ page_chunks = 1
  /\ page_ends = [i \in 1..PagesBefore |-> i]

ChunkInit == StoreInit /\ ExIdle /\ (ChunkBegin \/ ChunkLongDocument)

\* lines 28-34: the next page; an empty text goes on to the page after it
NextPage ==
  /\ pc = "page" /\ pages # <<>>
  /\ pages' = Tail(pages)
  /\ IF Strip(OrEmpty(Head(pages))) = <<>>
     THEN UNCHANGED <<pc, text, start, page_chunks>>
     ELSE /\ pc' = "window"
          /\ text' = Strip(OrEmpty(Head(pages)))
          /\ start' = 0
          /\ page_chunks' = 0
  /\ UNCHANGED <<all_chunks, win_start, win_end, page_ends, storeVars, exVars>>

\* lines 35-46: one iteration of the while loop
Window ==
  /\ pc = "window" /\ start < StrLen(text)
  /\ win_start' = start
  /\ win_end' = WindowEnd(text, start)
  /\ all_chunks' = Append(all_chunks, WindowChunk(text, start))
  /\ start' = NextStart(text, start)
  /\ page_chunks' = page_chunks + 1
  /\ UNCHANGED <<pc, pages, text, page_ends, storeVars, exVars>>

\* line 35 false, lines 48-49: the end of a page and the test of the cap
PageEnd ==
  /\ pc = "window" /\ ~(start < StrLen(text))
  /\ page_ends' = Append(page_ends, Len(all_chunks))
  /\ pc' = IF CapReached(Len(all_chunks)) THEN "done" ELSE "page"
  /\ UNCHANGED <<pages, text, start, all_chunks, win_start, win_end, page_chunks,
                 storeVars, exVars>>

\* line 51, after the last page
Return ==
  /\ pc = "page" /\ pages = <<>>
  /\ pc' = "done"
  /\ UNCHANGED <<pages, text, start, all_chunks, win_start, win_end, page_chunks,
                 page_ends, storeVars, exVars>>

ChunkNext == NextPage \/ Window \/ PageEnd \/ Return

SpecChunk == ChunkInit /\ [][ChunkNext]_vars

\* ------------------------------------ _extract_field_from_text, called once
ExInit ==
  /\ StoreInit /\ ChunkIdle
  /\ ex_question \in ExQuestions
  /\ ex_text \in ExTexts
  /\ ex_result = <<>>
  /\ ex_done = FALSE

\* lines 54-89
Extract ==
  /\ ~ex_done
  /\ ex_result' = ExtractField(ex_question, ex_text)
  /\ ex_done' = TRUE
  /\ UNCHANGED <<ex_question, ex_text, storeVars, chunkVars>>

ExNext == Extract

SpecExtract == ExInit /\ [][ExNext]_vars

\* ============================================================== properties
\* C1: after any sequence of uploads, queries and summaries docs_meta and
\* the index hold the same number of entries, and row i of the index is the
\* embedding of the text of record i.
StoresAligned ==
  /\ Len(index) = Len(docs_meta)
  /\ \A i \in 1..Len(docs_meta) : index[i] = encode(docs_meta[i].text)

\* C1: two files were stored, one of them with an empty chunk, and a query ran
AlignedAfterTwoUploads ==
  /\ uploads = MaxUploads /\ last_op = "query"
  /\ Len(docs_meta) >= 4
  /\ \E i \in 1..Len(docs_meta) : docs_meta[i].text = <<>>

Keyed(question) == {c \in 1..Len(FIELDS) : Keyword(FIELDS[c], Lower(question))}
Matched(question, doc) ==
  {c \in Keyed(question) : FieldValue(FIELDS[c], Replace(doc, "\n", " ")) # <<>>}

SemanticHitsInStore ==
  last_search # <<>> =>
    /\ Len(results) = Cardinality({s \in 1..Len(last_search) :
                                     /\ 0 <= last_search[s].idx
                                     /\ last_search[s].idx < Len(docs_meta)})
    /\ Len(results) <= Len(docs_meta)

\* C5: when the extraction from the concatenation of all chunk texts
\* succeeds, query returns exactly one result, with the context "Extracted
\* directly" and no score, and the index is not searched; every result of
\* the semantic path carries a score.
ShortCircuit ==
  asked # <<>> /\ docs_meta # <<>> =>
    IF Truthy(ExtractField(asked, AllText(docs_meta)))
    THEN /\ ~raised
         /\ Len(results) = 1
         /\ DOMAIN results[1] = {"answer", "context"}
         /\ results[1].context = EXTRACTED_DIRECTLY
         /\ results[1].answer = ExtractField(asked, AllText(docs_meta))[1]
         /\ last_search = <<>>
    ELSE \A i \in 1..Len(results) : "score" \in DOMAIN results[i]

\* C5: a query with k = MaxK on a store of several chunks was answered by
\* the extraction alone
ShortCircuitTaken ==
  /\ last_op = "query" /\ asked_k = MaxK /\ Len(docs_meta) > 1
  /\ Len(results) = 1 /\ "score" \notin DOMAIN results[1]
  /\ last_search = <<>>

\* C6 (as amended): no further page is chunked once the number of chunks
\* exceeds 2000 at the end of a page (a count of exactly 2000 does not stop
\* the loop), so at most 2000 chunks precede the last page chunked.
CapStopsOnceExceeded ==
  /\ \A j \in 1..Len(page_ends) :
       page_ends[j] > MAX_CHUNKS => j = Len(page_ends) /\ pc = "done"
  /\ pc = "done" => Len(all_chunks) - page_chunks <= MAX_CHUNKS

\* C6: the count exceeded 2000 at the end of a page and the function
\* returned with a page left
StoppedOverCap ==
  /\ pc = "done" /\ pages # <<>>
  /\ page_ends # <<>> /\ page_ends[Len(page_ends)] > MAX_CHUNKS

\* C6 (as stated): no further page is chunked once the number of chunks has
\* reached 2000 at the end of a page.
CapStopsOnceReached ==
  /\ \A j \in 1..Len(page_ends) :
       page_ends[j] >= MAX_CHUNKS => j = Len(page_ends) /\ pc = "done"
  /\ pc = "done" => Len(all_chunks) - page_chunks < MAX_CHUNKS

\* C7: every record of docs_meta has a text that is trimmed and non-empty.
StoredTextsTrimmedNonEmpty ==
  \A i \in 1..Len(docs_meta) :
    docs_meta[i].text # <<>> /\ Strip(docs_meta[i].text) = docs_meta[i].text

\* C8: no upload, query or summary ends in an exception.
NoRaisedFailure == ~raised

\* the characters the window chunked last shares with the one that begins
\* at start
Shared == Min(win_end, StrLen(text)) - start

\* C9 (as amended): for a trimmed page text longer than CHUNK_SIZE the
\* chunker emits at least 2 chunks of at most CHUNK_SIZE + 50 characters;
\* the first window begins at 0, each later one OVERLAP characters before
\* the end computed for the window preceding it (start + CHUNK_SIZE, or the
\* snapped end), which may lie beyond the text: consecutive windows share
\* OVERLAP characters when that end lies within the text and at least one
\* character otherwise, and the last window reaches the end of the text.
WindowsOverlapAndCover ==
  StrLen(text) > CHUNK_SIZE =>
    /\ pc = "window" /\ page_chunks = 0 => start = 0
    /\ page_chunks >= 1 =>
         /\ StrLen(all_chunks[Len(all_chunks)]) <= CHUNK_SIZE + SNAP_LIMIT
         /\ win_end - win_start <= CHUNK_SIZE + SNAP_LIMIT
         /\ page_chunks = 1 => win_start = 0
         /\ start = win_end - OVERLAP
         /\ win_end <= StrLen(text) => Shared = OVERLAP
         /\ start < StrLen(text) => Shared >= 1 /\ Shared <= OVERLAP
    /\ pc # "window" => page_chunks >= 2 /\ win_end >= StrLen(text)

\* C9: a page longer than CHUNK_SIZE was chunked to its end, and its last
\* window shares fewer than OVERLAP characters with the one before it
ShortLastOverlap ==
  /\ pc = "done" /\ StrLen(text) > CHUNK_SIZE /\ page_chunks >= 3
  /\ StrLen(text) - win_start < OVERLAP

\* C9 (as stated): ... each window after the first begins exactly OVERLAP
\* characters before the end of the window preceding it, so that consecutive
\* windows share OVERLAP characters, and no character is left out.
WindowsShareOverlap ==
  StrLen(text) > CHUNK_SIZE =>
    /\ pc = "window" /\ page_chunks = 0 => start = 0
    /\ page_chunks >= 1 =>
         /\ StrLen(all_chunks[Len(all_chunks)]) <= CHUNK_SIZE + SNAP_LIMIT
         /\ page_chunks = 1 => win_start = 0
         /\ start < StrLen(text) => Shared = OVERLAP
    /\ pc # "window" => page_chunks >= 2 /\ win_end >= StrLen(text)

\* C10: each iteration of the while loop moves start forward by at least
\* CHUNK_SIZE - OVERLAP, and the loop over a page text ends: iteration
\* number n begins at (n - 1) * (CHUNK_SIZE - OVERLAP) or later, within the
\* text, so that a text of n characters sees no more than
\* n / (CHUNK_SIZE - OVERLAP) + 1 iterations.
LoopAdvancesAndEnds ==
  /\ [][pc = "window" /\ page_chunks' = page_chunks + 1
          => start' - start >= CHUNK_SIZE - OVERLAP]_vars
  /\ [](pc = "window" /\ page_chunks >= 1 =>
          /\ win_start >= (page_chunks - 1) * (CHUNK_SIZE - OVERLAP)
          /\ win_start < StrLen(text))

\* C10: a window whose end was moved forward by the snapping was chunked
\* and start advanced
SnappedWindowAdvanced ==
  /\ pc = "window" /\ page_chunks >= 1
  /\ win_end - win_start > CHUNK_SIZE
  /\ start - win_start >= CHUNK_SIZE - OVERLAP
====
